---- MODULE Spec2Model ----
(***************************************************************************)
(* Citrus chat playground: the SSE decoder (streamDualResponses), the      *)
(* dual-stream reducer and the preference submitter of ChatPlayground.     *)
(*                                                                         *)
(* Text is a sequence of one-character strings.  React state is the value  *)
(* produced by the queued updates in call order; `view` holds the values   *)
(* captured by the closures of the latest render.  A chain of microtasks   *)
(* (the lines of one chunk flowing through the generator and the for-await *)
(* body) runs to completion before any user event, timer or render.        *)
(***************************************************************************)
EXTENDS Integers, Sequences, FiniteSets, TLC

\* ------------------------------------------------------------------ bounds
MaxExchanges == 2
MaxReads == 2
MaxClicks == 2
MaxDecReads == 4
MaxAuthCalls == 4

\* ------------------------------------------------------------------ text
NL == "\n"
NULL == "null"
DataPrefix == <<"d", "a", "t", "a", ":", " ">>

Last(s) == s[Len(s)]
Front(s) == SubSeq(s, 1, Len(s) - 1)

IsPrefix(s, t) == Len(s) <= Len(t) /\ SubSeq(t, 1, Len(s)) = s

IsSpace(c) == c \in {" ", NL}

RECURSIVE TrimStart(_)
TrimStart(s) == IF s # <<>> /\ IsSpace(Head(s)) THEN TrimStart(Tail(s)) ELSE s

RECURSIVE TrimEnd(_)
TrimEnd(s) == IF s # <<>> /\ IsSpace(Last(s)) THEN TrimEnd(Front(s)) ELSE s

\* String.prototype.trim
Trim(s) == TrimEnd(TrimStart(s))

\* String.prototype.split('\n'): always at least one element, the last one
\* being the text after the last newline
RECURSIVE Split(_)
Split(s) ==
    IF \A i \in 1..Len(s) : s[i] # NL
    THEN <<s>>
    ELSE LET i == CHOOSE j \in 1..Len(s) :
                      s[j] = NL /\ \A k \in 1..(j - 1) : s[k] # NL
         IN <<SubSeq(s, 1, i - 1)>> \o Split(SubSeq(s, i + 1, Len(s)))

\* String.prototype.startsWith
StartsWith(s, p) == IsPrefix(p, s)

\* String.prototype.slice(n)
Slice(s, n) == SubSeq(s, n + 1, Len(s))

\* ------------------------------------------------------------------ events
\* A parsed JSON value.  `fields` are the keys the object carries.
Ev(type, fields, trace_id, response_id, content, model, error) ==
    [kind |-> "object", type |-> type, fields |-> fields, trace_id |-> trace_id,
     response_id |-> response_id, content |-> content, model |-> model,
     error |-> error]

JsonNull ==
    [kind |-> "null", type |-> "", fields |-> {}, trace_id |-> "",
     response_id |-> 0, content |-> <<>>, model |-> "", error |-> ""]

\* The JSON texts of the model: "{" k "}" stands for the object JsonValue[k]
JsonKeys == {"T", "U", "A", "B", "C", "M", "S", "X", "Z", "N", "R", "Q", "O"}

JsonValue ==
    [k \in JsonKeys |->
        CASE k = "T" -> Ev("trace_info", {"type", "trace_id"}, "t1", 0, <<>>, "", "")
          [] k = "U" -> Ev("trace_info", {"type", "trace_id"}, "t2", 0, <<>>, "", "")
          [] k = "A" -> Ev("content", {"type", "response_id", "content"}, "", 1, <<"a">>, "", "")
          [] k = "B" -> Ev("content", {"type", "response_id", "content", "model"}, "", 2, <<"b">>, "m", "")
          [] k = "C" -> Ev("content", {"type", "response_id", "content"}, "", 1, <<"c">>, "", "")
          [] k = "M" -> Ev("content", {"type", "response_id", "model"}, "", 2, <<>>, "n", "")
          [] k = "S" -> Ev("streams_complete", {"type"}, "", 0, <<>>, "", "")
          [] k = "X" -> Ev("content", {"type", "response_id", "content"}, "", 3, <<"x">>, "", "")
          [] k = "Z" -> Ev("content", {"type", "response_id", "content"}, "", 0, <<"z">>, "", "")
          [] k = "N" -> Ev("content", {"type", "content"}, "", 0, <<"n">>, "", "")
          [] k = "R" -> Ev("error", {"type", "error"}, "", 0, <<>>, "", "boom")
          [] k = "Q" -> Ev("ping", {"type"}, "", 0, <<>>, "", "")
          [] k = "O" -> Ev("", {}, "", 0, <<>>, "", "")]

JsonText(k) == <<"{", k, "}">>

\* the characters other than ASCII that a JSON string of the model can hold:
\* "{" k c1 .. cn "}" stands for JsonValue[k] with c1 .. cn appended to its content
StringChars == {"E9", "FFFD"}

\* the JSON texts of a number and of a string
JsonNumber == "7"
JsonString == "\"s\""

\* JSON.parse succeeds
ParseOk(p) ==
    \/ p \in {<<NULL>>, <<JsonNumber>>, <<JsonString>>}
    \/ /\ Len(p) >= 3 /\ p[1] = "{" /\ p[Len(p)] = "}" /\ p[2] \in JsonKeys
       /\ \A i \in 3..(Len(p) - 1) :
             p[i] \in StringChars /\ "content" \in JsonValue[p[2]].fields

\* JSON.parse
JsonParse(p) ==
    IF p = <<NULL>> THEN JsonNull
    ELSE IF p = <<JsonNumber>> THEN [JsonNull EXCEPT !.kind = "number"]
    ELSE IF p = <<JsonString>> THEN [JsonNull EXCEPT !.kind = "string"]
    ELSE [JsonValue[p[2]] EXCEPT !.content = @ \o SubSeq(p, 3, Len(p) - 1)]

\* one framed record of the wire
Line(k) == DataPrefix \o JsonText(k) \o <<NL>>

\* ------------------------------------------------------------------ TextDecoder
\* Bytes are the ASCII characters themselves plus one two-byte character:
\* lead byte "C3" followed by continuation byte "A9" is the character "E9".
Utf8Lead == "C3"
Utf8Cont == "A9"
Utf8Char == "E9"
Replacement == "FFFD"

\* mutant: a decoder that keeps nothing from one chunk to the next
Utf8PendingNone(bytes) == <<>>

\* the bytes a TextDecoder in stream mode holds back at the end of a chunk
Utf8Pending(bytes) ==
    IF bytes # <<>> /\ Last(bytes) = Utf8Lead THEN <<Utf8Lead>> ELSE <<>>

RECURSIVE Utf8Text(_)
Utf8Text(bytes) ==
    IF bytes = <<>> THEN <<>>
    ELSE IF Head(bytes) = Utf8Lead
    THEN IF Len(bytes) = 1 THEN <<>>
         ELSE IF bytes[2] = Utf8Cont
              THEN <<Utf8Char>> \o Utf8Text(Tail(Tail(bytes)))
              ELSE <<Replacement>> \o Utf8Text(Tail(bytes))
    ELSE IF Head(bytes) = Utf8Cont
    THEN <<Replacement>> \o Utf8Text(Tail(bytes))
    ELSE <<Head(bytes)>> \o Utf8Text(Tail(bytes))

\* ------------------------------------------------------------------ reducer
NoSelection == 0

\* mutant: the two buffers created in the wrong order
initialResponsesReversed ==
    << [id |-> 2, content |-> <<>>, model |-> "gemini-1.5-flash", isStreaming |-> TRUE],
       [id |-> 1, content |-> <<>>, model |-> "gemini-2.5-flash", isStreaming |-> TRUE] >>

initialResponses ==
    << [id |-> 1, content |-> <<>>, model |-> "gemini-2.5-flash", isStreaming |-> TRUE],
       [id |-> 2, content |-> <<>>, model |-> "gemini-1.5-flash", isStreaming |-> TRUE] >>

\* mutant: an error event is rethrown by the loop body
ThrowsOnError(event) == event.kind = "null" \/ event.type = "error"

\* reading a property of null raises a TypeError
Throws(event) == event.kind = "null"

TruthyTraceId(event) == "trace_id" \in event.fields /\ event.trace_id # ""
TruthyResponseId(event) == "response_id" \in event.fields /\ event.response_id # 0

\* event.content || ''
ContentOrEmpty(event) == IF "content" \in event.fields THEN event.content ELSE <<>>

\* mutant: the label of the event is taken even when the event has none
ModelOrEvent(event, model) == event.model

\* event.model || resp.model
ModelOr(event, model) ==
    IF "model" \in event.fields /\ event.model # "" THEN event.model ELSE model

\* mutant: the new text put in front of the accumulated text
AppendContentPrepended(prev, event) ==
    IF prev = <<>> THEN <<>>
    ELSE [i \in 1..Len(prev) |->
            IF prev[i].id = event.response_id
            THEN [prev[i] EXCEPT !.content = ContentOrEmpty(event) \o @,
                                 !.model = ModelOr(event, @)]
            ELSE prev[i]]

\* mutant: a buffer that receives content is marked as streaming
AppendContentStreaming(prev, event) ==
    IF prev = <<>> THEN <<>>
    ELSE [i \in 1..Len(prev) |->
            IF prev[i].id = event.response_id
            THEN [prev[i] EXCEPT !.content = @ \o ContentOrEmpty(event),
                                 !.model = ModelOr(event, @),
                                 !.isStreaming = TRUE]
            ELSE prev[i]]

\* mutant: every id other than 1 is taken to be the second buffer
AppendContentOtherwise(prev, event) ==
    IF prev = <<>> THEN <<>>
    ELSE [i \in 1..Len(prev) |->
            IF prev[i].id = (IF event.response_id = 1 THEN 1 ELSE 2)
            THEN [prev[i] EXCEPT !.content = @ \o ContentOrEmpty(event),
                                 !.model = ModelOr(event, @)]
            ELSE prev[i]]

AppendContent(prev, event) ==
    IF prev = <<>> THEN <<>>
    ELSE [i \in 1..Len(prev) |->
            IF prev[i].id = event.response_id
            THEN [prev[i] EXCEPT !.content = @ \o ContentOrEmpty(event),
                                 !.model = ModelOr(event, @)]
            ELSE prev[i]]

\* mutant: only the buffers that received content are completed
StopStreamingNonEmpty(prev) ==
    IF prev = <<>> THEN <<>>
    ELSE [i \in 1..Len(prev) |->
            IF prev[i].content = <<>> THEN prev[i]
            ELSE [prev[i] EXCEPT !.isStreaming = FALSE]]

StopStreaming(prev) ==
    IF prev = <<>> THEN <<>>
    ELSE [i \in 1..Len(prev) |-> [prev[i] EXCEPT !.isStreaming = FALSE]]

\* the body of the for-await loop, on dualResponses
ReduceResponses(prev, event) ==
    IF event.type = "trace_info" /\ TruthyTraceId(event) THEN prev
    ELSE IF event.type = "content" /\ TruthyResponseId(event) THEN AppendContent(prev, event)
    ELSE IF event.type = "streams_complete" THEN StopStreaming(prev)
    ELSE prev

\* mutant: the first trace id of the conversation is kept
ReduceTraceIdFirst(prev, event) ==
    IF event.type = "trace_info" /\ TruthyTraceId(event) /\ prev = NULL
    THEN event.trace_id ELSE prev

\* the body of the for-await loop, on currentTraceId
ReduceTraceId(prev, event) ==
    IF event.type = "trace_info" /\ TruthyTraceId(event) THEN event.trace_id ELSE prev

\* ------------------------------------------------------------------ inputs
\* what the user can type in the textarea
Inputs == { <<" ">>, <<"p">>, <<" ", "q", NL>> }

SessionIds == {"session_1"}

\* what one reader.read() can deliver
Chunks ==
    { Line("T"),
      Line("U"),
      Line("A"),
      Line("B") \o Line("C"),
      Line("S"),
      Line("X") \o Line("Z") \o Line("N"),
      Line("R") \o Line("S") \o Line("A"),
      DataPrefix \o <<"{", "C">>,
      <<"}", NL>> }

\* ------------------------------------------------------------------ state
VARIABLES
    messages,          \* useState<ChatMessage[]>
    input,             \* useState('')
    isLoading,         \* useState(false)
    sessionId,         \* useState(generateSessionId())
    currentTraceId,    \* useState<string | null>(null)
    dualResponses,     \* useState<DualResponse[]>([])
    selectedResponse,  \* useState<number | null>(null)
    view,              \* isLoading and dualResponses as captured by the latest render
    streams,           \* per exchange: the generator of streamDualResponses and its consumer
    running,           \* the exchange whose microtask chain is running, 0 when none
    inFlight,          \* submitPreference calls awaiting their response
    timers,            \* pending setTimeout callbacks of handleSelectResponse
    exchange,          \* number of accepted submissions
    reads,             \* number of chunks delivered so far
    applied,           \* history: events applied by the for-await body in this exchange
    wire,              \* history: text received from the stream of this exchange
    sent,              \* history: PreferenceRecords passed to submitPreference
    flips,             \* history: true -> false transitions of isStreaming per buffer id
    auth,              \* AuthProvider: user, isAuthenticated, isLoading
    localStorage,      \* the stored token and the stored user
    loginPage,         \* LoginPage: step, isLoading and the rest of its state
    calls,             \* the server calls of AuthProvider and LoginPage in flight
    trail              \* history: the calls that were made and how they ended

\* the state of ChatPlayground and of its streams
chatVars == << messages, input, isLoading, sessionId, currentTraceId, dualResponses,
               selectedResponse, view, streams, running, inFlight, timers, exchange,
               reads, applied, wire, sent, flips >>

\* the state of AuthProvider, of the storage and of LoginPage
authVars == << auth, localStorage, loginPage, calls, trail >>

vars == << chatVars, authVars >>

uiVars == << messages, input, isLoading, currentTraceId, dualResponses,
             selectedResponse, view >>
hist == << applied, wire, sent, flips >>

Exchanges == 1..MaxExchanges

\* what the fetch of streamDualResponses settles with: a rejection (the network
\* failed) or a Response with its ok flag, its status and whether it has a body
Response(rejected, ok, status, body) ==
    [rejected |-> rejected, ok |-> ok, status |-> status, body |-> body]

NoResponse == Response(FALSE, FALSE, "", FALSE)

FetchResults ==
    { Response(FALSE, TRUE, "200", TRUE),
      Response(FALSE, FALSE, "500", TRUE),
      Response(FALSE, FALSE, "404", FALSE),
      Response(FALSE, TRUE, "204", FALSE),
      Response(TRUE, FALSE, "", FALSE) }

\* the messages of the errors that end an exchange before its first event;
\* that of the rejection of fetch itself is the browser's
FailedToFetch == <<"Failed to fetch">>
HttpError(status) == <<"HTTP error! status: ", status>>
NoResponseBody == <<"No response body">>

idleStream == [pc |-> "idle", buffer |-> <<>>, lines |-> <<>>, pending |-> <<>>,
               outcome |-> "", request |-> <<>>, response |-> NoResponse,
               error |-> <<>>]

ChatInit ==
    /\ messages = <<>>
    /\ input = <<>>
    /\ isLoading = FALSE
    /\ sessionId \in SessionIds
    /\ currentTraceId = NULL
    /\ dualResponses = <<>>
    /\ selectedResponse = NoSelection
    /\ view = [isLoading |-> FALSE, dualResponses |-> <<>>]
    /\ streams = [x \in Exchanges |-> idleStream]
    /\ running = 0
    /\ inFlight = 0
    /\ timers = 0
    /\ exchange = 0
    /\ reads = 0
    /\ applied = <<>>
    /\ wire = <<>>
    /\ sent = <<>>
    /\ flips = [b \in 1..2 |-> 0]

\* useState initial values of AuthProvider
initialAuth == [user |-> NULL, isAuthenticated |-> FALSE, isLoading |-> TRUE]

\* a storage without a session
emptyStorage == [token |-> NULL, user |-> NULL]

\* useState initial values of LoginPage
initialLoginPage ==
    [step |-> "email", otp |-> "", sessionToken |-> "", isLoading |-> FALSE,
     error |-> "", success |-> "", countdown |-> 0, closed |-> FALSE]

\* AuthProvider and LoginPage as constructed, nothing stored, no call made
Unmounted ==
    /\ auth = initialAuth
    /\ localStorage = emptyStorage
    /\ loginPage = initialLoginPage
    /\ calls = {}
    /\ trail = <<>>

Init == ChatInit /\ Unmounted

\* ------------------------------------------------------------------ handleSubmit
\* textarea onChange; the textarea is disabled while isLoading
SetInput(v) ==
    /\ running = 0
    /\ exchange < MaxExchanges
    /\ ~view.isLoading
    /\ input # v
    /\ input' = v
    /\ UNCHANGED << messages, isLoading, sessionId, currentTraceId, dualResponses,
                    selectedResponse, view, streams, running, inFlight, timers,
                    exchange, reads, hist >>
    /\ UNCHANGED authVars

\* if (!input.trim() || isLoading) return;
SubmitAccepted(text, loading) == ~(Trim(text) = <<>> \/ loading)

\* mutant: the whole conversation, new message included, sent as chat_history
DualResponseRequestWhole(newMessages, userMessage) ==
    [chat_history |-> newMessages,
     user_message |-> userMessage,
     session_id |-> sessionId]

\* the argument of streamDualResponses
DualResponseRequest(newMessages, userMessage) ==
    [chat_history |-> Front(newMessages),
     user_message |-> userMessage,
     session_id |-> sessionId]

\* mutant: handleSubmit without setIsLoading(true)
handleSubmitNotLoading ==
    /\ running = 0
    /\ exchange < MaxExchanges
    /\ SubmitAccepted(input, view.isLoading)
    /\ LET userMessage == Trim(input)
           newMessages == Append(messages, [role |-> "user", content |-> userMessage])
       IN /\ input' = <<>>
          /\ isLoading' = FALSE
          /\ selectedResponse' = NoSelection
          /\ messages' = newMessages
          /\ dualResponses' = initialResponses
          /\ view' = [isLoading |-> FALSE, dualResponses |-> initialResponses]
          /\ exchange' = exchange + 1
          /\ streams' = [streams EXCEPT ![exchange + 1] =
                            [idleStream EXCEPT
                                !.pc = "fetch",
                                !.request = DualResponseRequest(newMessages,
                                                                userMessage)]]
    /\ applied' = <<>>
    /\ wire' = <<>>
    /\ flips' = [b \in 1..2 |-> 0]
    /\ UNCHANGED << sessionId, currentTraceId, running, inFlight, timers, reads, sent >>
    /\ UNCHANGED authVars

\* the synchronous part of handleSubmit, up to the fetch of streamDualResponses;
\* React renders the updates of a discrete event before the next event
handleSubmit ==
    /\ running = 0
    /\ exchange < MaxExchanges
    /\ SubmitAccepted(input, view.isLoading)
    /\ LET userMessage == Trim(input)
           newMessages == Append(messages, [role |-> "user", content |-> userMessage])
       IN /\ input' = <<>>
          /\ isLoading' = TRUE
          /\ selectedResponse' = NoSelection
          /\ messages' = newMessages
          /\ dualResponses' = initialResponses
          /\ view' = [isLoading |-> TRUE, dualResponses |-> initialResponses]
          /\ exchange' = exchange + 1
          /\ streams' = [streams EXCEPT ![exchange + 1] =
                            [idleStream EXCEPT
                                !.pc = "fetch",
                                !.request = DualResponseRequest(newMessages,
                                                                userMessage)]]
    /\ applied' = <<>>
    /\ wire' = <<>>
    /\ flips' = [b \in 1..2 |-> 0]
    /\ UNCHANGED << sessionId, currentTraceId, running, inFlight, timers, reads, sent >>
    /\ UNCHANGED authVars

\* <form onSubmit={handleSubmit}>
FormSubmit == handleSubmit

Keys == {"Enter", "a"}

\* onKeyDown of the textarea
handleKeyDown(key, shiftKey) ==
    /\ key = "Enter" /\ ~shiftKey
    /\ handleSubmit

\* mutant: the exchange ends without setIsLoading(false)
FinishStillLoading(x, outcome) ==
    /\ isLoading' = isLoading
    /\ streams' = [streams EXCEPT ![x] = [@ EXCEPT !.pc = "done", !.outcome = outcome,
                                                   !.lines = <<>>, !.buffer = <<>>,
                                                   !.pending = <<>>]]
    /\ running' = 0

\* catch (error) { console.error } finally { setIsLoading(false) }
Finish(x, outcome) ==
    /\ isLoading' = FALSE
    /\ streams' = [streams EXCEPT ![x] = [@ EXCEPT !.pc = "done", !.outcome = outcome,
                                                   !.lines = <<>>, !.buffer = <<>>,
                                                   !.pending = <<>>]]
    /\ running' = 0

\* an error raised before the first event: caught and logged by handleSubmit,
\* whose finally block then runs
Fail(x, response, outcome, error) ==
    /\ isLoading' = FALSE
    /\ streams' = [streams EXCEPT ![x] = [@ EXCEPT !.pc = "done", !.outcome = outcome,
                                                   !.response = response,
                                                   !.error = error]]
    /\ running' = 0

\* mutant: the response is read whatever its status
FetchSettleUnchecked(x, response) ==
    /\ running = 0
    /\ streams[x].pc = "fetch"
    /\ IF response.rejected
       THEN Fail(x, response, "network", FailedToFetch)
       ELSE /\ streams' = [streams EXCEPT ![x] = [@ EXCEPT !.pc = "read",
                                                           !.response = response]]
            /\ UNCHANGED << isLoading, running >>
    /\ UNCHANGED << messages, input, sessionId, currentTraceId, dualResponses,
                    selectedResponse, view, inFlight, timers, exchange, reads, hist >>
    /\ UNCHANGED authVars

\* the fetch of streamDualResponses settles
FetchSettle(x, response) ==
    /\ running = 0
    /\ streams[x].pc = "fetch"
    /\ IF response.rejected
       THEN Fail(x, response, "network", FailedToFetch)
       ELSE IF ~response.ok
       THEN Fail(x, response, "http", HttpError(response.status))
       ELSE IF ~response.body
       THEN Fail(x, response, "nobody", NoResponseBody)
       ELSE /\ streams' = [streams EXCEPT ![x] = [@ EXCEPT !.pc = "read",
                                                           !.response = response]]
            /\ UNCHANGED << isLoading, running >>
    /\ UNCHANGED << messages, input, sessionId, currentTraceId, dualResponses,
                    selectedResponse, view, inFlight, timers, exchange, reads, hist >>
    /\ UNCHANGED authVars

\* decoder.decode(value, { stream: true }), split, keep the last fragment
Receive(x, chunk) ==
    /\ running = 0
    /\ streams[x].pc = "read"
    /\ LET bytes == streams[x].pending \o chunk
           text == streams[x].buffer \o Utf8Text(bytes)
           lines == Split(text)
       IN /\ streams' = [streams EXCEPT ![x] =
                            [@ EXCEPT !.pending = Utf8Pending(bytes),
                                      !.buffer = Last(lines),
                                      !.lines = Front(lines),
                                      !.pc = IF Front(lines) = <<>> THEN "read" ELSE "lines"]]
          /\ running' = IF Front(lines) = <<>> THEN 0 ELSE x
    /\ reads' = reads + 1
    /\ wire' = IF x = exchange THEN wire \o chunk ELSE wire
    /\ UNCHANGED << uiVars, sessionId, inFlight, timers, exchange, applied, sent, flips >>
    /\ UNCHANGED authVars

\* reader.read() resolves with a chunk
ReadChunk(x, chunk) ==
    /\ reads < MaxReads
    /\ Receive(x, chunk)

\* mutant: the payload of every line is parsed, whatever the line begins with
YieldsAnyLine(line) == ParseOk(Slice(line, Len(DataPrefix)))

\* the line yields an event
Yields(line) == StartsWith(line, DataPrefix) /\ ParseOk(Slice(line, Len(DataPrefix)))

AfterLine(x) ==
    [streams EXCEPT ![x] = [@ EXCEPT !.lines = Tail(@),
                                     !.pc = IF Tail(streams[x].lines) = <<>>
                                            THEN "read" ELSE "lines"]]

\* mutant: at the end of the stream the carry-over text is handled as a last line
ReadDoneFlush(x) ==
    /\ running = 0
    /\ streams[x].pc = "read"
    /\ IF Yields(streams[x].buffer)
       THEN LET event == JsonParse(Slice(streams[x].buffer, Len(DataPrefix)))
            IN /\ currentTraceId' = ReduceTraceId(currentTraceId, event)
               /\ dualResponses' = ReduceResponses(dualResponses, event)
               /\ applied' = Append(applied, event)
       ELSE UNCHANGED << currentTraceId, dualResponses, applied >>
    /\ Finish(x, "eof")
    /\ UNCHANGED << messages, input, sessionId, selectedResponse, view, inFlight,
                    timers, exchange, reads, wire, sent, flips >>
    /\ UNCHANGED authVars

\* reader.read() resolves with done: the generator returns, the loop ends
ReadDone(x) ==
    /\ running = 0
    /\ streams[x].pc = "read"
    /\ Finish(x, "eof")
    /\ UNCHANGED << messages, input, sessionId, currentTraceId, dualResponses,
                    selectedResponse, view, inFlight, timers, exchange, reads, hist >>
    /\ UNCHANGED authVars

\* a line that is not a data line, or whose payload does not parse, is skipped
SkipLine(x) ==
    /\ running = x
    /\ streams[x].pc = "lines"
    /\ ~Yields(Head(streams[x].lines))
    /\ streams' = AfterLine(x)
    /\ running' = IF Tail(streams[x].lines) = <<>> THEN 0 ELSE x
    /\ UNCHANGED << uiVars, sessionId, inFlight, timers, exchange, reads, hist >>
    /\ UNCHANGED authVars

Flipped(prev, next, b) ==
    \E i \in 1..Len(prev) :
        /\ prev[i].id = b /\ prev[i].isStreaming
        /\ i <= Len(next) /\ ~next[i].isStreaming

\* yield data; then one pass of the for-await body of handleSubmit
YieldEvent(x) ==
    /\ running = x
    /\ streams[x].pc = "lines"
    /\ Yields(Head(streams[x].lines))
    /\ LET event == JsonParse(Slice(Head(streams[x].lines), Len(DataPrefix)))
       IN IF Throws(event)
          THEN /\ Finish(x, "threw")
               /\ UNCHANGED << currentTraceId, dualResponses, applied, flips >>
          ELSE /\ currentTraceId' = ReduceTraceId(currentTraceId, event)
               /\ dualResponses' = ReduceResponses(dualResponses, event)
               /\ applied' = Append(applied, event)
               /\ flips' = [b \in 1..2 |->
                              IF Flipped(dualResponses, dualResponses', b)
                              THEN flips[b] + 1 ELSE flips[b]]
               /\ streams' = AfterLine(x)
               /\ running' = IF Tail(streams[x].lines) = <<>> THEN 0 ELSE x
               /\ UNCHANGED isLoading
    /\ UNCHANGED << messages, input, sessionId, selectedResponse, view, inFlight,
                    timers, exchange, reads, wire, sent >>
    /\ UNCHANGED authVars

\* React renders the updates queued outside event handlers
Render ==
    /\ running = 0
    /\ view # [isLoading |-> isLoading, dualResponses |-> dualResponses]
    /\ view' = [isLoading |-> isLoading, dualResponses |-> dualResponses]
    /\ UNCHANGED << messages, input, isLoading, sessionId, currentTraceId, dualResponses,
                    selectedResponse, streams, running, inFlight, timers, exchange,
                    reads, hist >>
    /\ UNCHANGED authVars

\* ------------------------------------------------------------------ handleSelectResponse
Undefined == <<"undefined">>

\* messages[messages.length - 1]?.content
LastContent(msgs) == IF msgs = <<>> THEN Undefined ELSE Last(msgs).content

\* dualResponses.map(r => r.content)
Contents(rs) == IF rs = <<>> THEN <<>> ELSE [i \in 1..Len(rs) |-> rs[i].content]

\* mutant: the record carries an identifier generated for it
PreferenceRecordFreshSession(responseId, rs, msgs) ==
    [session_id |-> "session_2",
     winner_index |-> responseId - 1,
     responses |-> Contents(rs),
     user_prompt |-> LastContent(msgs)]

\* mutant: the winner is sent as the buffer id
PreferenceRecordOneBased(responseId, rs, msgs) ==
    [session_id |-> sessionId,
     winner_index |-> responseId,
     responses |-> Contents(rs),
     user_prompt |-> LastContent(msgs)]

PreferenceRecord(responseId, rs, msgs) ==
    [session_id |-> sessionId,
     winner_index |-> responseId - 1,
     responses |-> Contents(rs),
     user_prompt |-> LastContent(msgs)]

\* the synchronous part of handleSelectResponse, with the closure's dualResponses
\* and messages, up to the fetch of submitPreference
handleSelectResponse(responseId) ==
    /\ selectedResponse' = responseId
    /\ IF \E i \in 1..Len(view.dualResponses) : view.dualResponses[i].id = responseId
       THEN LET selectedResp ==
                    view.dualResponses[CHOOSE i \in 1..Len(view.dualResponses) :
                        /\ view.dualResponses[i].id = responseId
                        /\ \A j \in 1..(i - 1) : view.dualResponses[j].id # responseId]
            IN /\ messages' = Append(messages, [role |-> "assistant",
                                                content |-> selectedResp.content])
               /\ sent' = Append(sent,
                      [record |-> PreferenceRecord(responseId, view.dualResponses, messages),
                       exchange |-> exchange,
                       settled |-> "pending"])
               /\ inFlight' = inFlight + 1
       ELSE UNCHANGED << messages, sent, inFlight >>

\* mutant: a card can be selected while its response is streaming
CanSelectAlways(response) == TRUE

\* onClick={() => !response.isStreaming && handleSelectResponse(response.id)}
CanSelect(response) == ~response.isStreaming

ClickCard(i) ==
    /\ running = 0
    /\ Len(sent) < MaxClicks
    /\ i \in 1..Len(view.dualResponses)
    /\ CanSelect(view.dualResponses[i])
    /\ handleSelectResponse(view.dualResponses[i].id)
    /\ UNCHANGED << input, isLoading, sessionId, currentTraceId, dualResponses, view,
                    streams, running, timers, exchange, reads, applied, wire, flips >>
    /\ UNCHANGED authVars

\* how the fetch of submitPreference can settle
PreferenceResults == {"ok", "http", "network"}

\* submitPreference resolves, or throws and the catch of handleSelectResponse
\* logs the error
Settled(result) == IF result = "ok" THEN "ok" ELSE "logged"

\* mutant: the error of submitPreference leaves handleSelectResponse
PreferenceSettleRethrow(k, result) ==
    /\ running = 0
    /\ k \in 1..Len(sent)
    /\ sent[k].settled = "pending"
    /\ sent' = [sent EXCEPT ![k].settled = Settled(result)]
    /\ inFlight' = inFlight - 1
    /\ timers' = IF result = "ok" THEN timers + 1 ELSE timers
    /\ UNCHANGED << uiVars, sessionId, streams, running, exchange, reads, applied,
                    wire, flips >>
    /\ UNCHANGED authVars

\* the submitPreference call of the k-th selection settles; then
\* setTimeout(..., 500)
PreferenceSettle(k, result) ==
    /\ running = 0
    /\ k \in 1..Len(sent)
    /\ sent[k].settled = "pending"
    /\ sent' = [sent EXCEPT ![k].settled = Settled(result)]
    /\ inFlight' = inFlight - 1
    /\ timers' = timers + 1
    /\ UNCHANGED << uiVars, sessionId, streams, running, exchange, reads, applied,
                    wire, flips >>
    /\ UNCHANGED authVars

\* the timeout callback: setDualResponses([]); setSelectedResponse(null)
ClearResponses ==
    /\ running = 0
    /\ timers > 0
    /\ timers' = timers - 1
    /\ dualResponses' = <<>>
    /\ selectedResponse' = NoSelection
    /\ UNCHANGED << messages, input, isLoading, sessionId, currentTraceId, view, streams,
                    running, inFlight, exchange, reads, hist >>
    /\ UNCHANGED authVars

\* ------------------------------------------------------------------ specification
Next ==
    \/ \E v \in Inputs : SetInput(v)
    \/ FormSubmit
    \/ \E key \in Keys, shiftKey \in BOOLEAN : handleKeyDown(key, shiftKey)
    \/ \E x \in Exchanges, response \in FetchResults : FetchSettle(x, response)
    \/ \E x \in Exchanges, chunk \in Chunks : ReadChunk(x, chunk)
    \/ \E x \in Exchanges : ReadDone(x)
    \/ \E x \in Exchanges : SkipLine(x)
    \/ \E x \in Exchanges : YieldEvent(x)
    \/ Render
    \/ \E i \in 1..2 : ClickCard(i)
    \/ \E k \in 1..MaxClicks, result \in PreferenceResults : PreferenceSettle(k, result)
    \/ ClearResponses

Spec == Init /\ [][Next]_vars

\* ------------------------------------------------------------------ the decoder alone
\* One exchange from the moment its fetch has succeeded, fed with chunkings of
\* records that hold a two-byte character, malformed JSON, lines that are not
\* data lines, blank lines and a last record without its newline.
AccentedA == <<"{", "A", Utf8Lead, Utf8Cont, "}">>

DecChunks ==
    { <<"d", "a">>,
      <<"t", "a", ":", " ", "{", "A", Utf8Lead>>,
      <<Utf8Cont, "}", NL>>,
      DataPrefix \o AccentedA \o <<NL>>,
      Line("B") \o <<NL>>,
      Line("M"),
      DataPrefix \o <<"{", "B", NL>>,
      <<"e", "v", "e", "n", "t", ":">> \o JsonText("C") \o <<NL>>,
      Line("A") \o <<"x", NL>> \o Line("C"),
      DataPrefix \o JsonText("S") }

DecInit ==
    /\ messages = << [role |-> "user", content |-> <<"p">>] >>
    /\ input = <<>>
    /\ isLoading = TRUE
    /\ sessionId \in SessionIds
    /\ currentTraceId = NULL
    /\ dualResponses = initialResponses
    /\ selectedResponse = NoSelection
    /\ view = [isLoading |-> TRUE, dualResponses |-> initialResponses]
    /\ streams = [x \in Exchanges |->
                    IF x = 1
                    THEN [idleStream EXCEPT
                             !.pc = "read",
                             !.response = Response(FALSE, TRUE, "200", TRUE),
                             !.request = [chat_history |-> <<>>,
                                          user_message |-> <<"p">>,
                                          session_id |-> sessionId]]
                    ELSE idleStream]
    /\ running = 0
    /\ inFlight = 0
    /\ timers = 0
    /\ exchange = 1
    /\ reads = 0
    /\ applied = <<>>
    /\ wire = <<>>
    /\ sent = <<>>
    /\ flips = [b \in 1..2 |-> 0]
    /\ Unmounted

\* reader.read() resolves with a chunk
DecRead(chunk) ==
    /\ reads < MaxDecReads
    /\ Receive(1, chunk)

DecNext ==
    \/ \E chunk \in DecChunks : DecRead(chunk)
    \/ ReadDone(1)
    \/ SkipLine(1)
    \/ YieldEvent(1)
    \/ Render

DecSpec == DecInit /\ [][DecNext]_vars

\* ------------------------------------------------------------------ records that are not events
\* The same exchange fed with data records whose payload is JSON but not an
\* event: null, a number, a string, an object of unknown type, an empty object.
RecChunks ==
    { DataPrefix \o <<NULL, NL>>,
      DataPrefix \o <<JsonNumber, NL>>,
      DataPrefix \o <<JsonString, NL>>,
      Line("Q"),
      Line("O"),
      Line("A") \o <<NL>>,
      Line("B") \o Line("S"),
      DataPrefix \o <<NULL, NL>> \o Line("A") }

RecNext ==
    \/ \E chunk \in RecChunks : DecRead(chunk)
    \/ ReadDone(1)
    \/ SkipLine(1)
    \/ YieldEvent(1)
    \/ Render

RecSpec == DecInit /\ [][RecNext]_vars

\* ------------------------------------------------------------------ termination
\* The whole component with streams that can end in each way: end of stream,
\* failure of the fetch, an exception of the loop body (a null record).  The
\* fetch settles and the stream ends sooner or later; the microtasks of a chunk
\* run to completion.
LiveChunks ==
    { Line("A") \o <<NL>>,
      Line("S"),
      DataPrefix \o <<NULL, NL>> \o Line("A") }

LiveNext ==
    \/ \E v \in Inputs : SetInput(v)
    \/ FormSubmit
    \/ \E key \in Keys, shiftKey \in BOOLEAN : handleKeyDown(key, shiftKey)
    \/ \E x \in Exchanges, response \in FetchResults : FetchSettle(x, response)
    \/ \E x \in Exchanges, chunk \in LiveChunks : ReadChunk(x, chunk)
    \/ \E x \in Exchanges : ReadDone(x)
    \/ \E x \in Exchanges : SkipLine(x)
    \/ \E x \in Exchanges : YieldEvent(x)
    \/ Render
    \/ \E i \in 1..2 : ClickCard(i)
    \/ \E k \in 1..MaxClicks, result \in PreferenceResults : PreferenceSettle(k, result)
    \/ ClearResponses

LiveFairness ==
    \A x \in Exchanges :
        /\ WF_vars(\E response \in FetchResults : FetchSettle(x, response))
        /\ WF_vars(ReadDone(x))
        /\ WF_vars(SkipLine(x))
        /\ WF_vars(YieldEvent(x))

LiveSpec == Init /\ [][LiveNext]_vars /\ LiveFairness

\* ------------------------------------------------------------------ api_auth
Users == {"u1"}
Token == "tok"

\* setStoredToken(token); setStoredUser(user)
storedSession(user) == [token |-> Token, user |-> user]

\* removeStoredToken removes the token and the user
removeStoredToken == emptyStorage

\* what the storage can hold when the application is loaded
StoredSessions == {emptyStorage} \cup {storedSession(u) : u \in Users}

\* how a server call can end: the fetch rejects or the response is not ok (the
\* function throws), or the body says success or not
Result(kind, user, is_new_user) ==
    [kind |-> kind, user |-> user, is_new_user |-> is_new_user]

Thrown == {Result("rejected", NULL, FALSE), Result("not ok", NULL, FALSE)}
Refused == Result("failure", NULL, FALSE)

\* GET /auth/me
MeResults == Thrown \cup {Refused} \cup {Result("success", u, FALSE) : u \in Users}

\* POST /auth/send-otp
SendResults == Thrown \cup {Refused, Result("success", NULL, FALSE)}

\* POST /auth/verify-otp: an existing user with a token, or a new user
VerifyResults ==
    Thrown \cup {Refused, Result("success", NULL, TRUE)}
           \cup {Result("success", u, FALSE) : u \in Users}

\* POST /auth/register
RegisterResults == Thrown \cup {Refused} \cup {Result("success", u, FALSE) : u \in Users}

\* response.success && response.user
SuccessWithUser(result) == result.kind = "success" /\ result.user # NULL

\* the storage after getCurrentUser
getCurrentUser(result) ==
    IF result.kind = "not ok" THEN removeStoredToken
    ELSE IF SuccessWithUser(result) THEN [localStorage EXCEPT !.user = result.user]
    ELSE localStorage

\* the storage after verifyOTP and after registerUser
storeSession(result) ==
    IF SuccessWithUser(result) THEN storedSession(result.user) ELSE localStorage

\* the calls in flight and the history
CallsMade == Cardinality(calls) + Len(trail)

Call(op) == [id |-> CallsMade + 1, op |-> op]

\* an entry of the history: the operation, how its request ended, and whether
\* the handler called login of the context
Entry(op, kind, is_new_user, loggedIn) ==
    [op |-> op, result |-> kind, is_new_user |-> is_new_user, login |-> loggedIn]

Ended(c, result) ==
    Append(trail, Entry(c.op, result.kind, result.is_new_user, FALSE))

EndedLogin(c, result) ==
    Append(trail, Entry(c.op, result.kind, result.is_new_user, TRUE))

NeverCalled(op) ==
    /\ \A c \in calls : c.op # op
    /\ \A i \in 1..Len(trail) : trail[i].op # op

\* ------------------------------------------------------------------ AuthProvider
\* the effect of AuthProvider has run: it does so before any event of the user
Mounted == ~NeverCalled("initAuth")

\* the effect on mount, up to the await of getCurrentUser
initAuth ==
    /\ NeverCalled("initAuth")
    /\ IF localStorage.token # NULL
       THEN /\ auth' = IF localStorage.user # NULL
                       THEN [auth EXCEPT !.user = localStorage.user,
                                         !.isAuthenticated = TRUE]
                       ELSE auth
            /\ calls' = calls \cup {Call("initAuth")}
            /\ UNCHANGED trail
       ELSE /\ auth' = [auth EXCEPT !.isLoading = FALSE]
            /\ trail' = Append(trail, Entry("initAuth", "no token", FALSE, FALSE))
            /\ UNCHANGED calls
    /\ UNCHANGED << localStorage, loginPage, chatVars >>

\* getCurrentUser of initAuth settles; then the rest of initAuth
initAuthSettle(c, result) ==
    /\ c \in calls /\ c.op = "initAuth"
    /\ localStorage' = getCurrentUser(result)
    /\ auth' = IF SuccessWithUser(result)
               THEN [user |-> result.user, isAuthenticated |-> TRUE, isLoading |-> FALSE]
               ELSE [user |-> NULL, isAuthenticated |-> FALSE, isLoading |-> FALSE]
    /\ calls' = calls \ {c}
    /\ trail' = Ended(c, result)
    /\ UNCHANGED << loginPage, chatVars >>

\* login of the context: the state of AuthProvider after it
login(userData) == [auth EXCEPT !.user = userData, !.isAuthenticated = TRUE]

\* logout of the context, up to the await of the fetch
logout ==
    /\ Mounted
    /\ CallsMade < MaxAuthCalls
    /\ calls' = calls \cup {Call("logout")}
    /\ UNCHANGED << auth, localStorage, loginPage, trail, chatVars >>

\* mutant: the session is kept when the logout request fails
logoutSettleKept(c, result) ==
    /\ c \in calls /\ c.op = "logout"
    /\ IF result.kind = "rejected"
       THEN UNCHANGED << localStorage, auth >>
       ELSE /\ localStorage' = removeStoredToken
            /\ auth' = [auth EXCEPT !.user = NULL, !.isAuthenticated = FALSE]
    /\ calls' = calls \ {c}
    /\ trail' = Ended(c, result)
    /\ UNCHANGED << loginPage, chatVars >>

\* the fetch of logout settles: catch, finally removeStoredToken; then
\* setUser(null); setIsAuthenticated(false)
logoutSettle(c, result) ==
    /\ c \in calls /\ c.op = "logout"
    /\ localStorage' = removeStoredToken
    /\ auth' = [auth EXCEPT !.user = NULL, !.isAuthenticated = FALSE]
    /\ calls' = calls \ {c}
    /\ trail' = Ended(c, result)
    /\ UNCHANGED << loginPage, chatVars >>

\* the responses of POST /auth/logout: the fetch rejects, or resolves with any status
LogoutResults == {Result("rejected", NULL, FALSE), Result("not ok", NULL, FALSE),
                  Result("success", NULL, FALSE)}

\* refreshUser of the context, up to the await inside getCurrentUser
refreshUser ==
    /\ Mounted
    /\ CallsMade < MaxAuthCalls
    /\ IF localStorage.token # NULL
       THEN /\ calls' = calls \cup {Call("refreshUser")}
            /\ UNCHANGED trail
       ELSE /\ trail' = Append(trail, Entry("refreshUser", "no token", FALSE, FALSE))
            /\ UNCHANGED calls
    /\ UNCHANGED << auth, localStorage, loginPage, chatVars >>

\* getCurrentUser of refreshUser settles; then the rest of refreshUser
refreshUserSettle(c, result) ==
    /\ c \in calls /\ c.op = "refreshUser"
    /\ localStorage' = getCurrentUser(result)
    /\ auth' = IF SuccessWithUser(result) THEN [auth EXCEPT !.user = result.user]
               ELSE auth
    /\ calls' = calls \ {c}
    /\ trail' = Ended(c, result)
    /\ UNCHANGED << loginPage, chatVars >>

\* ------------------------------------------------------------------ LoginPage
\* what the user can have typed in the email field: nothing, text that is not
\* an address, an address
Emails == {"", "x", "a@b.c"}

\* !email.trim()
IsBlank(email) == email = ""

\* emailRegex.test(email)
IsEmail(email) == email = "a@b.c"

\* the six boxes of the code, empty or filled
Otps == {"", "123456"}

\* setCountdown(60)
Cooldown == 60

\* the page applies an update only while it is mounted
Shown(page) == IF loginPage.closed THEN loginPage ELSE page

\* the page can be used: it is mounted and none of its controls is disabled
Usable(step) ==
    /\ Mounted
    /\ ~loginPage.closed
    /\ loginPage.step = step
    /\ ~loginPage.isLoading

\* the effect of LoginPage: navigate('/chat') when isAuthenticated
Redirect ==
    /\ auth.isAuthenticated
    /\ ~loginPage.closed
    /\ loginPage' = [loginPage EXCEPT !.closed = TRUE]
    /\ UNCHANGED << auth, localStorage, calls, trail, chatVars >>

\* the form of the email step, up to the await of sendOTP
handleSendOTP(email) ==
    /\ Usable("email")
    /\ CallsMade < MaxAuthCalls
    /\ IF IsBlank(email)
       THEN /\ loginPage' = [loginPage EXCEPT
                                !.error = "Please enter your email address",
                                !.success = ""]
            /\ UNCHANGED calls
       ELSE IF ~IsEmail(email)
       THEN /\ loginPage' = [loginPage EXCEPT
                                !.error = "Please enter a valid email address",
                                !.success = ""]
            /\ UNCHANGED calls
       ELSE /\ loginPage' = [loginPage EXCEPT !.error = "", !.success = "",
                                              !.isLoading = TRUE]
            /\ calls' = calls \cup {Call("sendOTP")}
    /\ UNCHANGED << auth, localStorage, trail, chatVars >>

\* sendOTP of handleSendOTP settles; then the rest of the handler
sendOTPSettle(c, result) ==
    /\ c \in calls /\ c.op = "sendOTP"
    /\ loginPage' =
          Shown(IF result.kind = "success"
                THEN [loginPage EXCEPT !.success = "OTP sent to your email!",
                                       !.step = "otp",
                                       !.countdown = Cooldown,
                                       !.isLoading = FALSE]
                ELSE IF result \in Thrown
                THEN [loginPage EXCEPT !.error = "Failed to send OTP",
                                       !.isLoading = FALSE]
                ELSE [loginPage EXCEPT !.isLoading = FALSE])
    /\ calls' = calls \ {c}
    /\ trail' = Ended(c, result)
    /\ UNCHANGED << auth, localStorage, chatVars >>

\* the timers of the countdown effect, taken together: the countdown runs down
CountdownElapsed ==
    /\ ~loginPage.closed
    /\ loginPage.countdown > 0
    /\ loginPage' = [loginPage EXCEPT !.countdown = 0]
    /\ UNCHANGED << auth, localStorage, calls, trail, chatVars >>

\* the boxes of the code are filled or emptied
handleOtpChange(value) ==
    /\ Usable("otp")
    /\ loginPage.otp # value
    /\ loginPage' = [loginPage EXCEPT !.otp = value]
    /\ UNCHANGED << auth, localStorage, calls, trail, chatVars >>

\* the form of the code step, up to the await of verifyOTP; its button is
\* disabled until the six boxes are filled
handleVerifyOTP ==
    /\ Usable("otp")
    /\ loginPage.otp # ""
    /\ CallsMade < MaxAuthCalls
    /\ loginPage' = [loginPage EXCEPT !.error = "", !.success = "", !.isLoading = TRUE]
    /\ calls' = calls \cup {Call("verifyOTP")}
    /\ UNCHANGED << auth, localStorage, trail, chatVars >>

\* verifyOTP settles; then the rest of handleVerifyOTP
verifyOTPSettle(c, result) ==
    /\ c \in calls /\ c.op = "verifyOTP"
    /\ localStorage' = storeSession(result)
    /\ IF result.kind = "success" /\ result.is_new_user
       THEN /\ loginPage' =
                  Shown([loginPage EXCEPT
                            !.sessionToken = "st",
                            !.step = "register",
                            !.success = "OTP verified! Please complete your registration.",
                            !.isLoading = FALSE])
            /\ UNCHANGED auth
            /\ trail' = Ended(c, result)
       ELSE IF SuccessWithUser(result)
       THEN /\ auth' = login(result.user)
            /\ loginPage' = [loginPage EXCEPT !.isLoading = FALSE, !.closed = TRUE]
            /\ trail' = EndedLogin(c, result)
       ELSE /\ loginPage' =
                  Shown(IF result \in Thrown
                        THEN [loginPage EXCEPT !.error = "Failed to verify OTP",
                                               !.isLoading = FALSE]
                        ELSE [loginPage EXCEPT !.isLoading = FALSE])
            /\ UNCHANGED auth
            /\ trail' = Ended(c, result)
    /\ calls' = calls \ {c}
    /\ UNCHANGED chatVars

\* the resend button, up to the await of sendOTP
handleResendOTP ==
    /\ Usable("otp")
    /\ loginPage.countdown = 0
    /\ CallsMade < MaxAuthCalls
    /\ loginPage' = [loginPage EXCEPT !.error = "", !.isLoading = TRUE]
    /\ calls' = calls \cup {Call("resendOTP")}
    /\ UNCHANGED << auth, localStorage, trail, chatVars >>

\* sendOTP of handleResendOTP settles; then the rest of the handler
resendOTPSettle(c, result) ==
    /\ c \in calls /\ c.op = "resendOTP"
    /\ loginPage' =
          Shown(IF result.kind = "success"
                THEN [loginPage EXCEPT !.success = "New OTP sent to your email!",
                                       !.otp = "",
                                       !.countdown = Cooldown,
                                       !.isLoading = FALSE]
                ELSE IF result \in Thrown
                THEN [loginPage EXCEPT !.error = "Failed to resend OTP",
                                       !.isLoading = FALSE]
                ELSE [loginPage EXCEPT !.isLoading = FALSE])
    /\ calls' = calls \ {c}
    /\ trail' = Ended(c, result)
    /\ UNCHANGED << auth, localStorage, chatVars >>

\* the field of the registration form that is blank, if any
BlankFields == {"name", "phoneNumber", "none"}

\* the form of the registration step, up to the await of registerUser
handleRegister(blank) ==
    /\ Usable("register")
    /\ CallsMade < MaxAuthCalls
    /\ IF blank = "name"
       THEN /\ loginPage' = [loginPage EXCEPT !.error = "Please enter your name",
                                              !.success = ""]
            /\ UNCHANGED calls
       ELSE IF blank = "phoneNumber"
       THEN /\ loginPage' = [loginPage EXCEPT
                                !.error = "Please enter your phone number",
                                !.success = ""]
            /\ UNCHANGED calls
       ELSE /\ loginPage' = [loginPage EXCEPT !.error = "", !.success = "",
                                              !.isLoading = TRUE]
            /\ calls' = calls \cup {Call("registerUser")}
    /\ UNCHANGED << auth, localStorage, trail, chatVars >>

\* registerUser settles; then the rest of handleRegister
registerUserSettle(c, result) ==
    /\ c \in calls /\ c.op = "registerUser"
    /\ localStorage' = storeSession(result)
    /\ IF SuccessWithUser(result)
       THEN /\ auth' = login(result.user)
            /\ loginPage' = [loginPage EXCEPT !.isLoading = FALSE, !.closed = TRUE]
            /\ trail' = EndedLogin(c, result)
       ELSE /\ loginPage' =
                  Shown(IF result \in Thrown
                        THEN [loginPage EXCEPT !.error = "Failed to register",
                                               !.isLoading = FALSE]
                        ELSE [loginPage EXCEPT !.isLoading = FALSE])
            /\ UNCHANGED auth
            /\ trail' = Ended(c, result)
    /\ calls' = calls \ {c}
    /\ UNCHANGED chatVars

\* the back button of the code step and of the registration step
handleBack ==
    /\ ~loginPage.closed
    /\ loginPage.step \in {"otp", "register"}
    /\ loginPage' = IF loginPage.step = "otp"
                    THEN [loginPage EXCEPT !.error = "", !.success = "",
                                           !.step = "email", !.otp = ""]
                    ELSE [loginPage EXCEPT !.error = "", !.success = "",
                                           !.step = "otp"]
    /\ UNCHANGED << auth, localStorage, calls, trail, chatVars >>

\* ------------------------------------------------------------------ the authentication alone
\* AuthProvider and LoginPage from the moment the application is loaded, with
\* or without a stored session; ChatPlayground stays as constructed.
AuthInit ==
    /\ ChatInit
    /\ auth = initialAuth
    /\ localStorage \in StoredSessions
    /\ loginPage = initialLoginPage
    /\ calls = {}
    /\ trail = <<>>

AuthNext ==
    \/ initAuth
    \/ \E c \in calls, result \in MeResults : initAuthSettle(c, result)
    \/ logout
    \/ \E c \in calls, result \in LogoutResults : logoutSettle(c, result)
    \/ refreshUser
    \/ \E c \in calls, result \in MeResults : refreshUserSettle(c, result)
    \/ Redirect
    \/ \E email \in Emails : handleSendOTP(email)
    \/ \E c \in calls, result \in SendResults : sendOTPSettle(c, result)
    \/ CountdownElapsed
    \/ \E value \in Otps : handleOtpChange(value)
    \/ handleVerifyOTP
    \/ \E c \in calls, result \in VerifyResults : verifyOTPSettle(c, result)
    \/ handleResendOTP
    \/ \E c \in calls, result \in SendResults : resendOTPSettle(c, result)
    \/ \E blank \in BlankFields : handleRegister(blank)
    \/ \E c \in calls, result \in RegisterResults : registerUserSettle(c, result)
    \/ handleBack

AuthSpec == AuthInit /\ [][AuthNext]_vars

\* ------------------------------------------------------------------ properties
Active(x) == streams[x].pc \in {"fetch", "read", "lines"}

IsContentFor(event, b) ==
    /\ event.type = "content"
    /\ "response_id" \in event.fields
    /\ event.response_id = b

RECURSIVE ContentFor(_, _)
\* the content fields of the content events for buffer b, concatenated in order
ContentFor(events, b) ==
    IF events = <<>> THEN <<>>
    ELSE (IF IsContentFor(Head(events), b) /\ "content" \in Head(events).fields
          THEN Head(events).content ELSE <<>>) \o ContentFor(Tail(events), b)

RECURSIVE LineEvents(_)
LineEvents(lines) ==
    IF lines = <<>> THEN <<>>
    ELSE (IF Yields(Head(lines))
          THEN <<JsonParse(Slice(Head(lines), Len(DataPrefix)))>> ELSE <<>>)
         \o LineEvents(Tail(lines))

\* the events framed by the newline-terminated lines of a text, in wire order
FramedEvents(text) == LineEvents(Front(Split(text)))

StreamsCompleteApplied ==
    \E i \in 1..Len(applied) : applied[i].type = "streams_complete"

SelectedIn(x) == \E k \in 1..Len(sent) : sent[k].exchange = x

C2_CompleteStopsBoth ==
    (applied # <<>> /\ Last(applied).type = "streams_complete")
        => \A i \in 1..Len(dualResponses) : ~dualResponses[i].isStreaming

C2_Witness ==
    /\ applied # <<>> /\ Last(applied).type = "streams_complete"
    /\ Len(dualResponses) = 2
    /\ dualResponses[1].content # <<>> /\ ~dualResponses[1].isStreaming
    /\ dualResponses[2].content = <<>> /\ ~dualResponses[2].isStreaming

\* C3: submitPreference is invoked at most once per exchange.
C3_AtMostOneRecord ==
    \A x \in Exchanges : Cardinality({k \in 1..Len(sent) : sent[k].exchange = x}) <= 1

\* C4: at most one stream is being consumed, and it is the stream of the
\* current exchange: no stream is opened while an earlier decode loop runs.
C4_OneActiveStream ==
    /\ Cardinality({x \in Exchanges : Active(x)}) <= 1
    /\ \A x \in Exchanges : Active(x) => x = exchange

C4_Witness ==
    /\ exchange = 2
    /\ streams[1].pc = "done" /\ streams[1].outcome = "eof"
    /\ streams[2].pc = "read"
    /\ applied # <<>>

\* C5 (as claimed): when the stream of an exchange has been read to its end, each
\* buffer's isStreaming has gone from true to false exactly once in that exchange.
C5_ExactlyOnce ==
    (exchange >= 1 /\ streams[exchange].outcome = "eof")
        => \A b \in 1..2 : flips[b] = 1

\* C5 (amended): within one exchange each buffer's isStreaming goes from true to
\* false at most once and never from false to true; a buffer becomes streaming
\* only in the step that starts a new exchange.
C5_AtMostOnce ==
    [][ /\ \A b \in 1..2 : flips'[b] <= 1
        /\ \A i \in 1..Len(dualResponses') :
              (/\ dualResponses'[i].isStreaming
               /\ ~(i <= Len(dualResponses) /\ dualResponses[i].isStreaming))
                 => exchange' = exchange + 1 ]_vars

C5_Witness ==
    /\ exchange = 2
    /\ flips[1] = 1 /\ flips[2] = 1
    /\ Len(applied) >= 3

\* C6: within one exchange, before a response is selected, no step removes a
\* buffer or changes its content other than by appending to it.
C6_ContentOnlyGrows ==
    [][ (exchange' = exchange /\ ~SelectedIn(exchange))
          => \A i \in 1..Len(dualResponses) :
                /\ i <= Len(dualResponses')
                /\ dualResponses'[i].id = dualResponses[i].id
                /\ IsPrefix(dualResponses[i].content, dualResponses'[i].content) ]_vars

\* C7: once streams_complete has been applied, no step of the same exchange
\* changes the buffers.
C7_CompleteIsTerminal ==
    [][ (StreamsCompleteApplied /\ exchange' = exchange)
          => dualResponses' = dualResponses ]_vars

UnknownId(event) ==
    /\ event.type = "content"
    /\ ~("response_id" \in event.fields /\ event.response_id \in {1, 2})

\* C8: applying a content event whose response_id is missing, zero or otherwise
\* not 1 or 2 leaves the buffers, the trace handle and the selection as they
\* were, and the loop goes on without an error.
C8_UnknownIdIgnored ==
    [][ (Len(applied') = Len(applied) + 1 /\ UnknownId(Last(applied')))
          => /\ dualResponses' = dualResponses
             /\ currentTraceId' = currentTraceId
             /\ selectedResponse' = selectedResponse
             /\ isLoading' = isLoading
             /\ \A x \in Exchanges : streams'[x].outcome # "threw" ]_vars

C8_Witness ==
    /\ Len(applied) >= 4
    /\ applied[1].type = "content" /\ applied[1].response_id = 1
    /\ \E i \in 1..Len(applied) : UnknownId(applied[i]) /\ applied[i].response_id = 3
    /\ \E i \in 1..Len(applied) : UnknownId(applied[i]) /\ applied[i].response_id = 0
    /\ \E i \in 1..Len(applied) :
          UnknownId(applied[i]) /\ ~("response_id" \in applied[i].fields)
    /\ Len(dualResponses) = 2 /\ dualResponses[1].content = <<"a">>

\* C9: the step that starts an exchange leaves exactly two buffers, ids 1 and 2
\* in that order, empty, streaming, with the placeholder labels, while the
\* stream is still to be opened and no event has been applied.
C9_ExchangeStartInitialises ==
    [][ exchange' = exchange + 1
          => /\ Len(dualResponses') = 2
             /\ \A i \in 1..2 :
                   /\ dualResponses'[i].id = i
                   /\ dualResponses'[i].content = <<>>
                   /\ dualResponses'[i].isStreaming
             /\ dualResponses'[1].model = "gemini-2.5-flash"
             /\ dualResponses'[2].model = "gemini-1.5-flash"
             /\ streams'[exchange'].pc = "fetch"
             /\ applied' = <<>> ]_vars

C9_Witness ==
    /\ exchange = 2
    /\ streams[2].pc = "fetch"
    /\ Len(dualResponses) = 2
    /\ dualResponses[1].content = <<>> /\ dualResponses[1].isStreaming
    /\ dualResponses[2].content = <<>> /\ dualResponses[2].isStreaming
    /\ Len(messages) >= 3

\* C10: the step that starts an exchange clears the trace handle and the
\* winner selection.
C10_ExchangeStartClears ==
    [][ exchange' = exchange + 1
          => currentTraceId' = NULL /\ selectedResponse' = NoSelection ]_vars

IsTraceInfo(event) ==
    event.type = "trace_info" /\ "trace_id" \in event.fields /\ event.trace_id # ""

TraceEvents(events) == SelectSeq(events, IsTraceInfo)

\* C11: applying a trace_info event makes its trace_id the trace handle and
\* leaves the buffers and the selection as they were; after it the handle is the
\* trace_id of the last trace_info event applied in the exchange.
C11_TraceInfoRecorded ==
    [][ /\ (Len(applied') = Len(applied) + 1 /\ IsTraceInfo(Last(applied')))
              => /\ currentTraceId' = Last(applied').trace_id
                 /\ dualResponses' = dualResponses
                 /\ selectedResponse' = selectedResponse
                 /\ isLoading' = isLoading
        /\ TraceEvents(applied') # <<>>
              => currentTraceId' = Last(TraceEvents(applied')).trace_id ]_vars

C11_Witness ==
    /\ Len(TraceEvents(applied)) = 2
    /\ applied[1].trace_id = "t1"
    /\ Last(applied).trace_id = "t2"
    /\ currentTraceId = "t2"
    /\ Len(dualResponses) = 2

\* the event the generator is about to yield, given that the head line yields
HeadEvent(x) == JsonParse(Slice(Head(streams[x].lines), Len(DataPrefix)))

AboutToYield(x) ==
    running = x /\ streams[x].pc = "lines" /\ Yields(Head(streams[x].lines))

\* C12: an error event is applied without changing a buffer, the trace handle
\* or the selection, and the loop goes on with the line after it; at the end of
\* the stream every framed event, those after an error included, was applied.
C12_ErrorOnlyLogged ==
    [][ /\ \A x \in Exchanges :
              (AboutToYield(x) /\ HeadEvent(x).type = "error")
                => /\ applied' = Append(applied, HeadEvent(x))
                   /\ streams'[x].lines = Tail(streams[x].lines)
                   /\ streams'[x].pc \in {"read", "lines"}
                   /\ dualResponses' = dualResponses
                   /\ currentTraceId' = currentTraceId
                   /\ selectedResponse' = selectedResponse
                   /\ isLoading' = isLoading
        /\ (exchange >= 1 /\ streams[exchange].outcome = "eof")
              => Len(applied) = Len(FramedEvents(Utf8Text(wire))) ]_vars

C12_Witness ==
    /\ Len(applied) = 3
    /\ applied[1].type = "error"
    /\ applied[2].type = "streams_complete"
    /\ applied[3].type = "content"
    /\ Len(dualResponses) = 2
    /\ dualResponses[1].content = <<"a">> /\ ~dualResponses[1].isStreaming
    /\ exchange >= 1 /\ streams[exchange].outcome = "eof"

\* a line that begins with 'data: ' and whose payload is JSON
IsDataRecord(line) ==
    /\ IsPrefix(DataPrefix, line)
    /\ ParseOk(SubSeq(line, Len(DataPrefix) + 1, Len(line)))

\* the newline-terminated lines of a text
TerminatedLines(text) == Front(Split(text))

RecordEvents(lines) ==
    IF lines = <<>> THEN <<>>
    ELSE [i \in 1..Len(lines) |->
             JsonParse(SubSeq(lines[i], Len(DataPrefix) + 1, Len(lines[i])))]

\* C13: the events yielded are those of the newline-terminated lines that begin
\* with 'data: ' and whose payload parses, in input order; any other line is
\* passed over without an error and without a change to what the lines around it
\* yield.
C13_YieldsDataRecords ==
    [][ /\ \A x \in Exchanges :
              (running = x /\ streams[x].pc = "lines")
                => IF IsDataRecord(Head(streams[x].lines))
                   THEN applied' = Append(applied, HeadEvent(x))
                   ELSE /\ applied' = applied
                        /\ streams'[x].lines = Tail(streams[x].lines)
                        /\ streams'[x].pc \in {"read", "lines"}
                        /\ dualResponses' = dualResponses
                        /\ currentTraceId' = currentTraceId
                        /\ isLoading' = isLoading
        /\ applied \o RecordEvents(SelectSeq(streams[exchange].lines, IsDataRecord))
              = RecordEvents(SelectSeq(TerminatedLines(Utf8Text(wire)), IsDataRecord))
        /\ \A x \in Exchanges : streams[x].outcome \in {"", "eof"} ]_vars

C13_Witness ==
    /\ Len(TerminatedLines(Utf8Text(wire))) = 5
    /\ Len(SelectSeq(TerminatedLines(Utf8Text(wire)), IsDataRecord)) = 2
    /\ Len(applied) = 2
    /\ applied[1].content = <<"a">> /\ applied[2].content = <<"c">>
    /\ dualResponses[1].content = <<"a", "c">>
    /\ streams[1].pc = "read"

\* C14: the events yielded are a function of the concatenation of the chunks
\* alone: after any chunks, the events yielded or about to be, the carry-over text
\* and the bytes the decoder holds back are those of the whole byte stream taken
\* as one chunk, wherever the chunk boundaries fell.
C14_ChunkingIrrelevant ==
    LET text == Utf8Text(wire)
    IN /\ applied \o RecordEvents(SelectSeq(streams[1].lines, Yields))
             = FramedEvents(text)
       /\ streams[1].pc # "done"
             => /\ streams[1].buffer = Last(Split(text))
                /\ streams[1].pending = Utf8Pending(wire)
       /\ \A i \in 1..Len(dualResponses) :
             dualResponses[i].content = ContentFor(applied, dualResponses[i].id)

C14_Witness ==
    /\ reads = 3
    /\ wire = DataPrefix \o AccentedA \o <<NL>>
    /\ Len(applied) = 1
    /\ applied[1].content = <<"a", Utf8Char>>
    /\ dualResponses[1].content = <<"a", Utf8Char>>

\* the text after the last newline of what the stream delivered
CarryOver == Last(Split(Utf8Text(wire)))

\* C15: when the stream ends the decoder returns without an error and the
\* carry-over text is dropped: the step that ends the stream applies no event and
\* changes no buffer, and what was applied by then is what the newline-terminated
\* lines framed, also when the carry-over is a complete data record.
C15_EofDiscardsCarryOver ==
    [][ /\ \A x \in Exchanges :
              (streams[x].pc = "read" /\ streams'[x].pc = "done")
                => /\ streams'[x].outcome = "eof"
                   /\ applied' = applied
                   /\ dualResponses' = dualResponses
                   /\ currentTraceId' = currentTraceId
                   /\ ~isLoading'
        /\ streams[exchange].outcome = "eof"
              => applied = RecordEvents(SelectSeq(TerminatedLines(Utf8Text(wire)),
                                                  IsDataRecord)) ]_vars

C15_Witness ==
    /\ streams[1].outcome = "eof"
    /\ IsDataRecord(CarryOver)
    /\ JsonParse(Slice(CarryOver, Len(DataPrefix))).type = "streams_complete"
    /\ Len(applied) = 2
    /\ \A i \in 1..Len(applied) : applied[i].type = "content"
    /\ dualResponses[1].content = <<"a", "c">>
    /\ dualResponses[1].isStreaming /\ dualResponses[2].isStreaming
    /\ ~isLoading

\* the fetch of exchange x resolved with a response that cannot be streamed
Unreadable(x) ==
    /\ streams[x].response # NoResponse
    /\ ~streams[x].response.rejected
    /\ ~streams[x].response.ok \/ ~streams[x].response.body

\* C16: a response that is not ok, or that has no readable body, makes
\* streamDualResponses raise an error, with the status in its message in the first
\* case, before any event is yielded: the exchange is over, nothing was read and
\* no event of it is ever applied.
C16_UnreadableResponseFails ==
    [][ \A x \in Exchanges :
          Unreadable(x)
            => /\ streams[x].pc = "done"
               /\ streams[x].error =
                     IF ~streams[x].response.ok
                     THEN <<"HTTP error! status: ", streams[x].response.status>>
                     ELSE <<"No response body">>
               /\ streams'[x] = streams[x]
               /\ x = exchange
                     => /\ applied = <<>> /\ wire = <<>>
                        /\ \A i \in 1..Len(dualResponses) :
                              dualResponses[i].content = <<>> ]_vars

C16_Witness ==
    /\ exchange = 2
    /\ streams[1].pc = "done" /\ streams[1].outcome = "nobody"
    /\ streams[1].response.status = "204"
    /\ streams[2].pc = "done" /\ streams[2].response.status = "500"
    /\ streams[2].error = <<"HTTP error! status: ", "500">>
    /\ applied = <<>>
    /\ dualResponses = initialResponses

\* the stream of exchange x could not be opened
TransportFailed(x) == streams[x].outcome \in {"network", "http", "nobody"}

\* C17: once the stream of the current exchange has failed to open, the
\* generating state is over: isLoading is false and no response buffer is left
\* with isStreaming = true.
C17_FailureEndsGenerating ==
    (exchange >= 1 /\ TransportFailed(exchange))
        => /\ ~isLoading
           /\ \A i \in 1..Len(dualResponses) : ~dualResponses[i].isStreaming

\* a card was clicked in this step and a PreferenceRecord was handed to
\* submitPreference
Selected == Len(sent') = Len(sent) + 1

\* C18: the record submitted for the buffer with id r has winner_index = r - 1,
\* which is 0 or 1, and responses made of exactly two strings: the content of
\* buffer 1, then the content of buffer 2, as held by the buffers the selection
\* was made on (those of the render that showed the cards); the winning string
\* is the one added to the conversation.
C18_RecordOfSelection ==
    [][ Selected
          => LET record == Last(sent').record
                 shown == view.dualResponses
             IN /\ record.winner_index = selectedResponse' - 1
                /\ record.winner_index \in {0, 1}
                /\ Len(record.responses) = 2
                /\ Len(shown) = 2 /\ shown[1].id = 1 /\ shown[2].id = 2
                /\ record.responses = << shown[1].content, shown[2].content >>
                /\ view.dualResponses = dualResponses
                      => record.responses =
                            << dualResponses[1].content, dualResponses[2].content >>
                /\ Last(messages').content = record.responses[record.winner_index + 1]
      ]_vars

C18_Witness ==
    /\ Len(sent) = 1
    /\ selectedResponse = 2
    /\ sent[1].record.winner_index = 1
    /\ sent[1].record.responses = << <<"c">>, <<"b">> >>
    /\ Len(dualResponses) = 2
    /\ dualResponses[1].content = <<"c">> /\ dualResponses[2].content = <<"b">>
    /\ Last(messages) = [role |-> "assistant", content |-> <<"b">>]

\* C19: the user_prompt of every record submitted is the prompt that started
\* the exchange whose responses were judged.
C19_PromptOfExchange ==
    \A k \in 1..Len(sent) :
        sent[k].record.user_prompt = streams[sent[k].exchange].request.user_message

\* the submitPreference call of some selection settled in this step
Settling(k) ==
    /\ k <= Len(sent)
    /\ sent[k].settled = "pending"
    /\ sent'[k].settled # "pending"

\* C20: when submitPreference settles, with success or with a failure that is
\* logged, handleSelectResponse goes on to schedule the delayed clear: no new
\* record is sent, the attempt stays settled and the interface state is left as
\* it was; when the delay has elapsed the buffers and the selection are cleared.
C20_FailureLoggedThenCleared ==
    [][ /\ \A k \in 1..MaxClicks :
              Settling(k)
                => /\ sent'[k].settled \in {"ok", "logged"}
                   /\ timers' = timers + 1
                   /\ Len(sent') = Len(sent)
                   /\ sent'[k].record = sent[k].record
                   /\ inFlight' = inFlight - 1
                   /\ << messages, isLoading, dualResponses, selectedResponse >>' =
                         << messages, isLoading, dualResponses, selectedResponse >>
        /\ \A k \in 1..Len(sent) :
              (sent[k].settled # "pending") => (k <= Len(sent') /\ sent'[k] = sent[k])
        /\ timers' = timers - 1
              => /\ dualResponses' = <<>>
                 /\ selectedResponse' = NoSelection
        /\ inFlight = Cardinality({k \in 1..Len(sent) : sent[k].settled = "pending"})
      ]_vars

C20_Witness ==
    /\ exchange = 1
    /\ Len(sent) = 1
    /\ sent[1].settled = "logged"
    /\ inFlight = 0 /\ timers = 0
    /\ dualResponses = <<>>
    /\ selectedResponse = NoSelection
    /\ Last(messages).role = "assistant"

\* the exchanges whose stream-opening request was made
Started == 1..exchange

\* C21: the session identifier drawn when the component is mounted never
\* changes, and the request of every exchange and every PreferenceRecord carry it.
C21_OneSessionId ==
    [][ /\ sessionId' = sessionId
        /\ \A x \in Started : streams[x].request.session_id = sessionId
        /\ \A k \in 1..Len(sent) : sent[k].record.session_id = sessionId ]_vars

C21_Witness ==
    /\ exchange = 2
    /\ streams[1].request.session_id = sessionId
    /\ streams[2].request.session_id = sessionId
    /\ Len(sent) = 2
    /\ sent[1].exchange = 1 /\ sent[2].exchange = 2
    /\ sent[1].record.session_id = sessionId
    /\ sent[2].record.session_id = sessionId

\* an exchange was started in this step
Submitted == exchange' = exchange + 1

\* C22: the request that opens the stream of an exchange has as chat_history
\* the conversation as it was before the new user message, in order, as
\* user_message the new user message, which is then the last message of the
\* conversation and not part of chat_history, and the session identifier.
C22_RequestOfExchange ==
    [][ Submitted
          => LET request == streams'[exchange'].request
             IN /\ request.chat_history = messages
                /\ request.user_message = Trim(input)
                /\ request.session_id = sessionId
                /\ messages' = Append(messages, [role |-> "user",
                                                 content |-> request.user_message])
                /\ Len(request.chat_history) = Len(messages') - 1 ]_vars

C22_Witness ==
    /\ exchange = 2
    /\ streams[1].request.chat_history = <<>>
    /\ Len(streams[2].request.chat_history) = 2
    /\ streams[2].request.chat_history[1] = [role |-> "user", content |-> <<"p">>]
    /\ streams[2].request.chat_history[2].role = "assistant"
    /\ streams[2].request.user_message = <<"q">>
    /\ Len(messages) = 3

\* the timeout callback of a selection ran in this step
TimerFired == timers' = timers - 1

\* every selection made so far was made in an exchange before the current one
SelectionsAreOld == \A k \in 1..Len(sent) : sent[k].exchange < exchange

\* C23: the delayed clear of a selection removes only the buffers of the
\* exchange the selection was made in: when it fires after a new exchange has
\* started, the buffers of the new exchange and their content stay.
C23_ClearOnlyOwnExchange ==
    [][ (TimerFired /\ SelectionsAreOld) => dualResponses' = dualResponses ]_vars

\* the for-await body handled an event in this step
Applied == Len(applied') = Len(applied) + 1

\* C24: a content event whose response_id is the id of a buffer appends its
\* content, the empty string when it has none, to that buffer and replaces the
\* label of that buffer only when it carries a model; isStreaming of that
\* buffer, the other buffer, the trace handle and the selection stay as they were.
C24_ContentFrame ==
    [][ (Applied /\ Last(applied').type = "content"
                 /\ TruthyResponseId(Last(applied')))
          => LET event == Last(applied')
             IN /\ Len(dualResponses') = Len(dualResponses)
                /\ \A j \in 1..Len(dualResponses) :
                      IF dualResponses[j].id = event.response_id
                      THEN /\ dualResponses'[j].id = dualResponses[j].id
                           /\ dualResponses'[j].content =
                                 dualResponses[j].content \o
                                 (IF "content" \in event.fields
                                  THEN event.content ELSE <<>>)
                           /\ dualResponses'[j].model =
                                 (IF "model" \in event.fields
                                  THEN event.model ELSE dualResponses[j].model)
                           /\ dualResponses'[j].isStreaming = dualResponses[j].isStreaming
                      ELSE dualResponses'[j] = dualResponses[j]
                /\ currentTraceId' = currentTraceId
                /\ selectedResponse' = selectedResponse ]_vars

C24_Witness ==
    /\ Len(applied) = 3
    /\ applied[1].type = "content" /\ applied[1].response_id = 2
    /\ applied[1].model = "m"
    /\ applied[2].response_id = 2 /\ "content" \notin applied[2].fields
    /\ applied[3].response_id = 1 /\ "model" \notin applied[3].fields
    /\ dualResponses[2] = [id |-> 2, content |-> <<"b">>, model |-> "n",
                           isStreaming |-> TRUE]
    /\ dualResponses[1] = [id |-> 1, content |-> <<"a">>,
                           model |-> "gemini-2.5-flash", isStreaming |-> TRUE]

\* C25: no data record stops the consumption of the stream: the exchange never
\* ends on an exception, and the events applied, followed by those of the lines
\* of the chunk still to be handled, are all the events framed on the wire.
C25_NoRecordStops ==
    /\ streams[1].outcome # "threw"
    /\ streams[1].pc # "done"
          => Len(applied) + Len(SelectSeq(streams[1].lines, Yields))
                = Len(FramedEvents(Utf8Text(wire)))
    /\ streams[1].pc = "done"
          => Len(applied) = Len(FramedEvents(Utf8Text(wire)))

\* C26: a record is sent only for a response that is complete: at the step
\* that sends it the selected buffer, as shown, has isStreaming = false, the
\* record is for the current exchange and streams_complete has been applied in
\* that exchange.
C26_OnlyCompleteSelected ==
    [][ Selected
          => /\ Last(sent').exchange = exchange
             /\ StreamsCompleteApplied
             /\ \E i \in 1..Len(view.dualResponses) :
                   /\ view.dualResponses[i].id = selectedResponse'
                   /\ ~view.dualResponses[i].isStreaming ]_vars

C26_Witness ==
    /\ Len(sent) = 1
    /\ sent[1].exchange = 2
    /\ exchange = 2
    /\ streams[1].outcome = "eof"
    /\ Len(applied) = 1 /\ applied[1].type = "streams_complete"
    /\ sent[1].record.responses = << <<>>, <<>> >>

\* C27: while the stream of the current exchange has not terminated isLoading
\* is true, and every accepted submission leads to its stream being over with
\* isLoading false, however the stream ends.
C27_LoadingEnds ==
    /\ [](\A x \in Exchanges : (x = exchange /\ Active(x)) => isLoading)
    /\ \A x \in Exchanges :
          (streams[x].pc = "fetch") ~> (streams[x].pc = "done" /\ ~isLoading)

C27_Witness ==
    /\ exchange = 2
    /\ streams[1].outcome = "threw"
    /\ streams[2].outcome = "eof"
    /\ ~isLoading

\* C28: isAuthenticated is true exactly when user is not null.
C28_AuthenticatedIffUser ==
    auth.isAuthenticated <=> (auth.user # NULL)

\* the request of a logout settles in this step
LogoutReturns == \E c \in calls : c.op = "logout" /\ c \notin calls'

\* C29: when logout returns, whether its request succeeded or failed, the
\* stored token and the stored user are removed, user is null and
\* isAuthenticated is false.
C29_LogoutEndsSession ==
    [][LogoutReturns =>
          /\ localStorage' = emptyStorage
          /\ auth'.user = NULL
          /\ ~auth'.isAuthenticated]_vars

\* a session restored from storage and verified by the server, then a logout
\* whose request was rejected
C29_Witness ==
    /\ trail = << Entry("initAuth", "success", FALSE, FALSE),
                  Entry("logout", "rejected", FALSE, FALSE) >>
    /\ localStorage = emptyStorage
    /\ auth.user = NULL
    /\ ~auth.isAuthenticated

\* the entry of the call that ends in this step
EndedEntry == trail'[Len(trail')]

CallEnds(op, kind) ==
    /\ Len(trail') = Len(trail) + 1
    /\ EndedEntry.op = op
    /\ EndedEntry.result = kind

\* C30: step moves only along email -> otp -> register and back; otp is
\* entered from email only after sendOTP succeeded, register is entered only
\* after verifyOTP succeeded with is_new_user, and login is called only after
\* a successful verifyOTP of an existing user or a successful registerUser.
C30_StepsInOrder ==
    [][/\ loginPage'.step # loginPage.step =>
             \/ /\ loginPage.step = "email" /\ loginPage'.step = "otp"
                /\ CallEnds("sendOTP", "success")
             \/ /\ loginPage.step = "otp" /\ loginPage'.step = "register"
                /\ CallEnds("verifyOTP", "success")
                /\ EndedEntry.is_new_user
             \/ loginPage.step = "otp" /\ loginPage'.step = "email"
             \/ loginPage.step = "register" /\ loginPage'.step = "otp"
       /\ (Len(trail') = Len(trail) + 1 /\ EndedEntry.login) =>
             \/ CallEnds("verifyOTP", "success") /\ ~EndedEntry.is_new_user
             \/ CallEnds("registerUser", "success")]_vars

====
